---- MODULE Spec2Model ----
(***************************************************************************)
(* Model of the todo-list REST API of debugfest/mern-todo-list: the        *)
(* Express route handlers of App/server over the Mongoose collection of    *)
(* todos.                                                                  *)
(*                                                                         *)
(* A text is a sequence of one-character strings.  A request arrives on a  *)
(* connection (Request), its route handler runs (one action per awaited    *)
(* store call that another request could interleave with) and answers,     *)
(* and the answered exchange ends (EndResponse).  Spec serves the requests *)
(* one at a time, on connection 1; SpecFail does so over a store whose     *)
(* connection comes and goes; SpecConc serves two connections at once.     *)
(*                                                                         *)
(* SpecClient adds the React client (App): its state, and each of its      *)
(* async functions as two actions, one up to the await of the request and  *)
(* one (...Settled) from the response on, which works on the `todos` the   *)
(* function's closure captured when it was called.                         *)
(* SpecEdit calls editTodo with every combination of arguments.  SpecItem  *)
(* adds the TodoItem component of one todo: its edit-mode state and its    *)
(* handlers, through which the user edits.                                 *)
(***************************************************************************)
EXTENDS Integers, Sequences, FiniteSets, TLC

\* ---------------------------------------------------------------- bounds
\* how many todos are ever created
MaxTodos == 2

\* how many times the user calls a function of the client
MaxCalls == 3

\* ------------------------------------------------------------ vocabulary
\* the texts of todos: a letter in either case, and a text holding a
\* character that is special in a regular expression
Words == {<<"a">>, <<"A">>, <<"a", "+">>}

\* the texts of requests: empty, blank, and every word bare and padded
\* with whitespace
Texts == {<<>>, <<" ">>} \cup Words \cup {<<" ">> \o w \o <<" ">> : w \in Words}

\* `text` absent from the JSON body (req.body.text is undefined)
Undefined == <<"undefined">>

\* an :id that is no ObjectId (it cannot be cast)
InvalidId == 0

\* the connections requests arrive on
Conns == {1, 2}

TextRequired == "Text is required"
DuplicateText == "Duplicate todo text"
TodoNotFound == "Todo not found"
TodoDeleted == "Todo deleted successfully"
ValidationFailed == "Todo validation failed"
CastFailed == "Cast to ObjectId failed"
RegexInvalid == "Regular expression is invalid"
StoreUnreachable == "connect ECONNREFUSED"

\* db      the todos collection
\* nextId  the next _id the store generates
\* now     the clock, as last read by a default createdAt
\* pc, req, resp   per connection: where its handler stands, the request
\*         being served and the response sent
\* before, deleted   history: the collection as it was when the request
\*         arrived, and every _id ever deleted
\* storeUp whether the connection to the store is up
VARIABLES db, nextId, now, pc, req, resp, before, deleted, storeUp

\* The React client (App): its state
\* todos, inputText, loading   the useState values of App
\* mounted  whether the effect that runs once on mount has run
\* call     per connection: the client function awaiting the response on
\*          it, with its arguments and the `todos` its closure captured
\* last     history: the client function that returned last (its call,
\*          the response it handled, what it returned) and the client
\*          state it found
\* calls    how many times the user has called addTodo, deleteTodo or
\*          editTodo
\* failed   history: whether some request of the client has failed
VARIABLES todos, inputText, loading, mounted, call, last, calls, failed

serverVars == <<db, nextId, now, pc, req, resp, before, deleted, storeUp>>

\* One TodoItem, the component rendered for the todo with _id ItemId
\* isEditing, editText, error   its useState values
\* saving   the connections on which a handleSaveClick of the component
\*          awaits editTodo
VARIABLES isEditing, editText, error, saving

clientVars == <<todos, inputText, loading, mounted, call, last, calls, failed>>
itemVars == <<isEditing, editText, error, saving>>
vars == <<serverVars, clientVars, itemVars>>

NoReq == [method |-> "NONE", id |-> InvalidId, text |-> Undefined, completed |-> "undefined"]
NoResp == [status |-> 0, message |-> "", body |-> <<>>]
NoCall == [op |-> "none", todos |-> <<>>, id |-> InvalidId, text |-> Undefined, completed |-> "undefined"]
NoEvent == [call |-> NoCall, resp |-> NoResp, ret |-> <<>>, todos |-> <<>>, inputText |-> <<>>, busy |-> {}]

\* ------------------------------------------------------- string helpers
RECURSIVE TrimStart(_)
TrimStart(t) == IF t = <<>> THEN <<>>
                ELSE IF Head(t) = " " THEN TrimStart(Tail(t)) ELSE t

RECURSIVE TrimEnd(_)
TrimEnd(t) == IF t = <<>> THEN <<>>
              ELSE IF t[Len(t)] = " " THEN TrimEnd(SubSeq(t, 1, Len(t) - 1)) ELSE t

\* String.prototype.trim
trim(t) == TrimEnd(TrimStart(t))

\* JavaScript truthiness of req.body.text: undefined and "" are falsy
Truthy(t) == t # Undefined /\ t # <<>>

toLowerCase(c) == IF c = "A" THEN "a" ELSE c

\* ------------------------------------------ the $regex of the PATCH query
\* The pattern is the trimmed text pasted between ^ and $, so "+" in the
\* text is a quantifier of the character before it ("++" is possessive) and
\* a "+" with nothing to repeat makes the expression invalid.
QuantLen(p) == IF Len(p) >= 2 /\ p[2] = "+"
               THEN (IF Len(p) >= 3 /\ p[3] = "+" THEN 2 ELSE 1)
               ELSE 0

AfterAtom(p) == SubSeq(p, 2 + QuantLen(p), Len(p))

RECURSIVE RegexValid(_)
RegexValid(p) == IF p = <<>> THEN TRUE
                 ELSE IF Head(p) = "+" THEN FALSE
                 ELSE RegexValid(AfterAtom(p))

\* $options i: letters compare without regard to case
CharMatch(c, d) == toLowerCase(c) = toLowerCase(d)

RECURSIVE RunLen(_, _)
RunLen(c, s) == IF s = <<>> THEN 0
                ELSE IF CharMatch(c, Head(s)) THEN 1 + RunLen(c, Tail(s)) ELSE 0

RECURSIVE RegexMatch(_, _)
RegexMatch(p, s) ==
  IF p = <<>> THEN s = <<>>
  ELSE LET c == Head(p)
           q == QuantLen(p)
           r == AfterAtom(p)
           run == RunLen(c, s)
       IN  CASE q = 0 -> s # <<>> /\ CharMatch(c, Head(s)) /\ RegexMatch(r, Tail(s))
             [] q = 1 -> \E k \in 1..run : RegexMatch(r, SubSeq(s, k + 1, Len(s)))
             [] q = 2 -> run >= 1 /\ RegexMatch(r, SubSeq(s, run + 1, Len(s)))

\* ------------------------------------------------------------ the store
Ids(S) == {d._id : d \in S}

\* the Todo schema: text is trimmed on assignment, completed defaults to
\* false, createdAt defaults to the time of construction
NewTodo(id, text, t) == [_id |-> id, text |-> trim(text), completed |-> FALSE, createdAt |-> t]

\* schema validation run by save(): text is required
Validates(doc) == doc.text # <<>>

\* Todo.find().sort({ createdAt: -1 }): every order of the documents that
\* is descending in createdAt (documents with equal createdAt come in an
\* order the store chooses)
FindSorted(S) ==
  {f \in [1..Cardinality(S) -> S] :
      /\ \A i, j \in 1..Cardinality(S) : i # j => f[i] # f[j]
      /\ \A i, j \in 1..Cardinality(S) : i < j => f[i].createdAt >= f[j].createdAt}

\* ------------------------------------------------------------- requests
Requests ==
       {[method |-> "GET", id |-> InvalidId, text |-> Undefined, completed |-> "undefined"]}
  \cup {[method |-> "POST", id |-> InvalidId, text |-> t, completed |-> "undefined"] :
           t \in Texts \cup {Undefined}}
  \cup {[method |-> "DELETE", id |-> i, text |-> Undefined, completed |-> "undefined"] :
           i \in {InvalidId} \cup 1..MaxTodos}
  \cup {[method |-> "PATCH", id |-> i, text |-> t, completed |-> "undefined"] :
           i \in {InvalidId} \cup 1..MaxTodos, t \in Texts \cup {Undefined}}
  \cup {[method |-> "PATCH", id |-> i, text |-> Undefined, completed |-> c] :
           i \in {InvalidId} \cup 1..MaxTodos, c \in {"true", "false"}}

Init ==
  /\ db = {}
  /\ nextId = 1
  /\ now = 0
  /\ pc = [s \in Conns |-> "idle"]
  /\ req = [s \in Conns |-> NoReq]
  /\ resp = [s \in Conns |-> NoResp]
  /\ before = [s \in Conns |-> {}]
  /\ deleted = {}
  /\ storeUp = TRUE
  /\ todos = <<>>
  /\ inputText = <<>>
  /\ loading = FALSE
  /\ mounted = FALSE
  /\ call = [s \in Conns |-> NoCall]
  /\ last = NoEvent
  /\ calls = 0
  /\ failed = FALSE
  /\ isEditing = FALSE
  /\ editText = <<>>
  /\ error = ""
  /\ saving = {}

Respond(s, status, message, body) ==
  /\ resp' = [resp EXCEPT ![s] = [status |-> status, message |-> message, body |-> body]]
  /\ pc' = [pc EXCEPT ![s] = "done"]
  /\ UNCHANGED <<req, before>>

\* an HTTP request arrives on connection s and is routed to its handler
Arrive(s, r) ==
  /\ pc[s] = "idle"
  /\ r.method = "POST" => nextId <= MaxTodos
  /\ req' = [req EXCEPT ![s] = r]
  /\ pc' = [pc EXCEPT ![s] = "pending"]
  /\ before' = [before EXCEPT ![s] = db]
  /\ UNCHANGED <<db, nextId, now, resp, deleted, storeUp>>

\* a request of some HTTP client other than the React client
Request(s, r) ==
  /\ Arrive(s, r)
  /\ UNCHANGED <<clientVars, itemVars>>

\* app.get('/api/todos')
GetTodos(s) ==
  /\ pc[s] = "pending"
  /\ req[s].method = "GET"
  /\ IF ~storeUp
     THEN Respond(s, 500, StoreUnreachable, <<>>)
     ELSE \E found \in FindSorted(db) : Respond(s, 200, "", found)
  /\ UNCHANGED <<db, nextId, now, deleted, storeUp, clientVars, itemVars>>

\* PostTodos answering 201 with the document it built but never saved
PostTodos_NoSave(s) ==
  /\ pc[s] = "pending"
  /\ req[s].method = "POST"
  /\ LET text == req[s].text IN
     IF ~Truthy(text)
     THEN Respond(s, 400, TextRequired, <<>>)
     ELSE LET todo == NewTodo(nextId, text, now) IN
          IF Validates(todo)
          THEN Respond(s, 201, "", <<todo>>)
          ELSE Respond(s, 400, ValidationFailed, <<>>)
  /\ UNCHANGED <<db, nextId, now, deleted, storeUp, clientVars, itemVars>>

\* PostTodos writing the document before it is validated
PostTodos_SaveUnvalidated(s) ==
  /\ pc[s] = "pending"
  /\ req[s].method = "POST"
  /\ LET text == req[s].text IN
     IF ~Truthy(text)
     THEN /\ Respond(s, 400, TextRequired, <<>>)
          /\ UNCHANGED <<db, nextId, now>>
     ELSE LET todo == NewTodo(nextId, text, now) IN
          /\ nextId <= MaxTodos
          /\ db' = db \cup {todo}
          /\ nextId' = nextId + 1
          /\ UNCHANGED now
          /\ IF Validates(todo)
             THEN Respond(s, 201, "", <<todo>>)
             ELSE Respond(s, 400, ValidationFailed, <<>>)
  /\ UNCHANGED <<deleted, storeUp, clientVars, itemVars>>

\* app.post('/api/todos').  The store generates the _id; the default
\* createdAt reads the clock, which has or has not advanced since it was
\* last read (two todos built in the same millisecond get equal createdAt).
PostTodos(s) ==
  /\ pc[s] = "pending"
  /\ req[s].method = "POST"
  /\ LET text == req[s].text IN
     IF ~Truthy(text)
     THEN /\ Respond(s, 400, TextRequired, <<>>)
          /\ UNCHANGED <<db, nextId, now>>
     ELSE \E t \in {now, now + 1} :
            LET todo == NewTodo(nextId, text, t) IN
            IF ~Validates(todo)
            THEN /\ Respond(s, 400, ValidationFailed, <<>>)
                 /\ UNCHANGED <<db, nextId, now>>
            ELSE IF ~storeUp
            THEN /\ Respond(s, 400, StoreUnreachable, <<>>)
                 /\ UNCHANGED <<db, nextId, now>>
            ELSE /\ nextId <= MaxTodos
                 /\ db' = db \cup {todo}
                 /\ nextId' = nextId + 1
                 /\ now' = t
                 /\ Respond(s, 201, "", <<todo>>)
  /\ UNCHANGED <<deleted, storeUp, clientVars, itemVars>>

\* DeleteTodo without the `if (!todo)` test: a miss is answered like a hit
DeleteTodo_NoNullCheck(s) ==
  /\ pc[s] = "pending"
  /\ req[s].method = "DELETE"
  /\ LET id == req[s].id IN
     IF id = InvalidId
     THEN /\ Respond(s, 500, CastFailed, <<>>)
          /\ UNCHANGED <<db, deleted>>
     ELSE /\ db' = {d \in db : d._id # id}
          /\ deleted' = IF id \in Ids(db) THEN deleted \cup {id} ELSE deleted
          /\ Respond(s, 200, TodoDeleted, <<>>)
  /\ UNCHANGED <<nextId, now, storeUp, clientVars, itemVars>>

\* DeleteTodo looking the document up (findById) without removing it
DeleteTodo_FindOnly(s) ==
  /\ pc[s] = "pending"
  /\ req[s].method = "DELETE"
  /\ LET id == req[s].id IN
     IF id = InvalidId
     THEN /\ Respond(s, 500, CastFailed, <<>>)
          /\ UNCHANGED <<db, deleted>>
     ELSE IF id \in Ids(db)
     THEN /\ deleted' = deleted \cup {id}
          /\ Respond(s, 200, TodoDeleted, <<>>)
          /\ UNCHANGED db
     ELSE /\ Respond(s, 404, TodoNotFound, <<>>)
          /\ UNCHANGED <<db, deleted>>
  /\ UNCHANGED <<nextId, now, storeUp, clientVars, itemVars>>

\* app.delete('/api/todos/:id')
DeleteTodo(s) ==
  /\ pc[s] = "pending"
  /\ req[s].method = "DELETE"
  /\ LET id == req[s].id IN
     IF id = InvalidId
     THEN /\ Respond(s, 500, CastFailed, <<>>)
          /\ UNCHANGED <<db, deleted>>
     ELSE IF ~storeUp
     THEN /\ Respond(s, 500, StoreUnreachable, <<>>)
          /\ UNCHANGED <<db, deleted>>
     ELSE IF id \in Ids(db)
     THEN /\ db' = {d \in db : d._id # id}
          /\ deleted' = deleted \cup {id}
          /\ Respond(s, 200, TodoDeleted, <<>>)
     ELSE /\ Respond(s, 404, TodoNotFound, <<>>)
          /\ UNCHANGED <<db, deleted>>
  /\ UNCHANGED <<nextId, now, storeUp, clientVars, itemVars>>

\* Todo.findOne({ text: { $regex: `^${text.trim()}$`, $options: 'i' },
\*                _id: { $ne: id } }) cannot be run when the id cannot be
\* cast, the store cannot be reached or the expression is invalid
QueryError(text, id) ==
  IF id = InvalidId THEN CastFailed
  ELSE IF ~storeUp THEN StoreUnreachable
  ELSE IF ~RegexValid(trim(text)) THEN RegexInvalid
  ELSE ""

\* the documents that query matches
FindDuplicates(S, text, id) ==
  {d \in S : RegexMatch(trim(text), d.text) /\ d._id # id}

\* PatchFindDuplicate testing `!text` alone, as the POST handler does
PatchFindDuplicate_NoTrimCheck(s) ==
  /\ pc[s] = "pending"
  /\ req[s].method = "PATCH"
  /\ LET text == req[s].text
         id == req[s].id
     IN  IF ~Truthy(text)
         THEN Respond(s, 400, TextRequired, <<>>)
         ELSE IF QueryError(text, id) # ""
         THEN Respond(s, 500, QueryError(text, id), <<>>)
         ELSE IF FindDuplicates(db, text, id) # {}
         THEN Respond(s, 400, DuplicateText, <<>>)
         ELSE /\ pc' = [pc EXCEPT ![s] = "updating"]
              /\ UNCHANGED <<req, resp, before>>
  /\ UNCHANGED <<db, nextId, now, deleted, storeUp, clientVars, itemVars>>

\* app.patch('/api/todos/:id'), up to the answer of findOne
PatchFindDuplicate(s) ==
  /\ pc[s] = "pending"
  /\ req[s].method = "PATCH"
  /\ LET text == req[s].text
         id == req[s].id
     IN  IF ~Truthy(text) \/ ~Truthy(trim(text))
         THEN Respond(s, 400, TextRequired, <<>>)
         ELSE IF QueryError(text, id) # ""
         THEN Respond(s, 500, QueryError(text, id), <<>>)
         ELSE IF FindDuplicates(db, text, id) # {}
         THEN Respond(s, 400, DuplicateText, <<>>)
         ELSE /\ pc' = [pc EXCEPT ![s] = "updating"]
              /\ UNCHANGED <<req, resp, before>>
  /\ UNCHANGED <<db, nextId, now, deleted, storeUp, clientVars, itemVars>>

\* PatchUpdate with { upsert: true }: a missing document is inserted
PatchUpdate_Upsert(s) ==
  /\ pc[s] = "updating"
  /\ LET text == req[s].text
         id == req[s].id
         todo == IF id \in Ids(db)
                 THEN [(CHOOSE d \in db : d._id = id) EXCEPT !.text = trim(text)]
                 ELSE NewTodo(id, text, now)
     IN  /\ db' = {d \in db : d._id # id} \cup {todo}
         /\ Respond(s, 200, "", <<todo>>)
  /\ UNCHANGED <<nextId, now, deleted, storeUp, clientVars, itemVars>>

\* PatchUpdate without { new: true }: the answer is the document as it was
\* before the update
PatchUpdate_ReturnsOld(s) ==
  /\ pc[s] = "updating"
  /\ LET text == req[s].text
         id == req[s].id
     IN  IF id \in Ids(db)
         THEN LET old == CHOOSE d \in db : d._id = id
                  todo == [old EXCEPT !.text = trim(text)]
              IN  /\ db' = (db \ {old}) \cup {todo}
                  /\ Respond(s, 200, "", <<old>>)
         ELSE /\ Respond(s, 404, TodoNotFound, <<>>)
              /\ UNCHANGED db
  /\ UNCHANGED <<nextId, now, deleted, storeUp, clientVars, itemVars>>

\* app.patch('/api/todos/:id'), from findByIdAndUpdate on
PatchUpdate(s) ==
  /\ pc[s] = "updating"
  /\ LET text == req[s].text
         id == req[s].id
     IN  IF ~storeUp
         THEN /\ Respond(s, 500, StoreUnreachable, <<>>)
              /\ UNCHANGED db
         ELSE IF id \in Ids(db)
         THEN LET old == CHOOSE d \in db : d._id = id
                  todo == [old EXCEPT !.text = trim(text)]
              IN  /\ db' = (db \ {old}) \cup {todo}
                  /\ Respond(s, 200, "", <<todo>>)
         ELSE /\ Respond(s, 404, TodoNotFound, <<>>)
              /\ UNCHANGED db
  /\ UNCHANGED <<nextId, now, deleted, storeUp, clientVars, itemVars>>

\* the answered exchange ends; the connection is free again
Close(s) ==
  /\ pc[s] = "done"
  /\ pc' = [pc EXCEPT ![s] = "idle"]
  /\ req' = [req EXCEPT ![s] = NoReq]
  /\ resp' = [resp EXCEPT ![s] = NoResp]
  /\ before' = [before EXCEPT ![s] = {}]
  /\ UNCHANGED <<db, nextId, now, deleted, storeUp>>

\* the exchange with some HTTP client other than the React client ends
EndResponse(s) ==
  /\ call[s] = NoCall
  /\ Close(s)
  /\ UNCHANGED <<clientVars, itemVars>>

Next ==
  \/ \E r \in Requests : Request(1, r)
  \/ GetTodos(1)
  \/ PostTodos(1)
  \/ DeleteTodo(1)
  \/ PatchFindDuplicate(1)
  \/ PatchUpdate(1)
  \/ EndResponse(1)

Spec == Init /\ [][Next]_vars

\* ------------------------------------------------------ store failures
\* the connection to the store is lost
Disconnected ==
  /\ storeUp
  /\ storeUp' = FALSE
  /\ UNCHANGED <<db, nextId, now, pc, req, resp, before, deleted, clientVars, itemVars>>

\* the driver has reconnected
Reconnected ==
  /\ ~storeUp
  /\ storeUp' = TRUE
  /\ UNCHANGED <<db, nextId, now, pc, req, resp, before, deleted, clientVars, itemVars>>

\* the requests served one at a time over a store that comes and goes
NextFail ==
  \/ Next
  \/ Disconnected
  \/ Reconnected

SpecFail == Init /\ [][NextFail]_vars

\* ---------------------------------------------------- concurrent requests
\* creations and text changes of words
ConcRequests ==
       {[method |-> "POST", id |-> InvalidId, text |-> t, completed |-> "undefined"] :
           t \in Words}
  \cup {[method |-> "PATCH", id |-> i, text |-> t, completed |-> "undefined"] :
           i \in 1..MaxTodos, t \in Words}

\* the requests of two connections served concurrently: a handler runs to
\* its next await, then any handler may run on
NextConc ==
  \/ \E s \in Conns, r \in ConcRequests : Request(s, r)
  \/ \E s \in Conns : PostTodos(s)
  \/ \E s \in Conns : PatchFindDuplicate(s)
  \/ \E s \in Conns : PatchUpdate(s)
  \/ \E s \in Conns : EndResponse(s)

SpecConc == Init /\ [][NextConc]_vars

\* ------------------------------------------------------ the React client
\* what the user types into the input of App: blank, and a word padded
\* with whitespace
InputTexts == {<<" ">>, <<" ", "a", " ">>}

\* the arguments (text, completed) editTodo is called with: a padded word,
\* a blank text with a completed flag, a blank text alone
EditArgs ==
  {<< <<" ", "A", " ">>, "undefined">>, << <<" ">>, "true">>, << <<" ">>, "undefined">>}

EditFailed == "An error occurred while editing the todo"

\* axios resolves on a 2xx status and rejects otherwise
Resolves(r) == r.status \in 200..299

\* the connections a client function is awaiting a response on
Busy == {s \in Conns : call[s] # NoCall}

ListIds(list) == {list[i]._id : i \in 1..Len(list)}

\* the client function of connection s returns: `last` records it
Returned(s, ret) ==
  /\ last' = [call |-> call[s], resp |-> resp[s], ret |-> ret,
              todos |-> todos, inputText |-> inputText, busy |-> Busy]
  /\ failed' = (failed \/ ~Resolves(resp[s]))

\* a client function that issued no request returns
ReturnedAtOnce(c, ret) ==
  /\ last' = [call |-> c, resp |-> NoResp, ret |-> ret,
              todos |-> todos, inputText |-> inputText, busy |-> Busy]
  /\ UNCHANGED failed

\* the todo whose TodoItem is modelled
ItemId == 1

\* todos.map(todo => <TodoItem key={todo._id} ... />): the component is
\* mounted while its todo is in the list
Shown(list) == ItemId \in ListIds(list)

\* the text prop of the component
TextOf(list) == list[CHOOSE i \in 1..Len(list) : list[i]._id = ItemId].text

\* App renders a new list: the component keeps its state while its todo
\* stays in the list, loses it when the todo leaves the list and starts
\* from its useState initial values when the todo enters it
Rerender ==
  IF ~Shown(todos')
  THEN /\ isEditing' = FALSE
       /\ editText' = <<>>
       /\ error' = ""
       /\ saving' = {}
  ELSE IF ~Shown(todos)
  THEN /\ isEditing' = FALSE
       /\ editText' = TextOf(todos')
       /\ error' = ""
       /\ saving' = {}
  ELSE UNCHANGED itemVars

\* useEffect(() => { fetchTodos() }, []): axios.get(API_URL) is sent
fetchTodos(s) ==
  /\ ~mounted
  /\ UNCHANGED calls
  /\ call[s] = NoCall
  /\ mounted' = TRUE
  /\ call' = [call EXCEPT ![s] = [NoCall EXCEPT !.op = "fetchTodos", !.todos = todos]]
  /\ Arrive(s, [method |-> "GET", id |-> InvalidId, text |-> Undefined, completed |-> "undefined"])
  /\ last' = NoEvent
  /\ UNCHANGED failed
  /\ UNCHANGED <<todos, inputText, loading>>
  /\ UNCHANGED itemVars

\* fetchTodos after its await
fetchTodosSettled(s) ==
  /\ UNCHANGED calls
  /\ call[s].op = "fetchTodos"
  /\ Close(s)
  /\ todos' = IF Resolves(resp[s]) THEN resp[s].body ELSE todos
  /\ call' = [call EXCEPT ![s] = NoCall]
  /\ Returned(s, <<>>)
  /\ UNCHANGED <<inputText, loading, mounted>>
  /\ Rerender

\* onChange of the input, which is disabled while loading
setInputText(t) ==
  /\ UNCHANGED calls
  /\ mounted
  /\ ~loading
  /\ t # inputText
  /\ inputText' = t
  /\ last' = NoEvent
  /\ UNCHANGED failed
  /\ UNCHANGED <<todos, loading, mounted, call>>
  /\ UNCHANGED serverVars
  /\ UNCHANGED itemVars

\* AddEnabled with neither control disabled while loading
AddEnabled_NeverDisabled == TRUE

\* the Add button and the Enter key of the input can call addTodo: both
\* controls are disabled while loading
AddEnabled == ~loading

\* addTodo, to its await
addTodo(s) ==
  /\ mounted
  /\ calls < MaxCalls
  /\ calls' = calls + 1
  /\ AddEnabled
  /\ call[s] = NoCall
  /\ IF trim(inputText) = <<>>
     THEN /\ ReturnedAtOnce([NoCall EXCEPT !.op = "addTodo", !.todos = todos, !.text = inputText], <<>>)
          /\ UNCHANGED <<todos, inputText, loading, mounted, call>>
          /\ UNCHANGED serverVars
     ELSE /\ loading' = TRUE
          /\ call' = [call EXCEPT ![s] = [NoCall EXCEPT !.op = "addTodo", !.todos = todos, !.text = inputText]]
          /\ Arrive(s, [method |-> "POST", id |-> InvalidId, text |-> inputText, completed |-> "undefined"])
          /\ last' = NoEvent
          /\ UNCHANGED failed
          /\ UNCHANGED <<todos, inputText, mounted>>
  /\ UNCHANGED itemVars

\* addTodoSettled with setInputText("") in its finally block
addTodoSettled_ClearsInputAlways(s) ==
  /\ UNCHANGED calls
  /\ call[s].op = "addTodo"
  /\ Close(s)
  /\ todos' = IF Resolves(resp[s]) THEN resp[s].body \o call[s].todos ELSE todos
  /\ inputText' = <<>>
  /\ loading' = FALSE
  /\ call' = [call EXCEPT ![s] = NoCall]
  /\ Returned(s, <<>>)
  /\ UNCHANGED mounted
  /\ Rerender

\* addTodoSettled with setLoading(false) at the end of its try block and
\* no finally block
addTodoSettled_NoFinally(s) ==
  /\ UNCHANGED calls
  /\ call[s].op = "addTodo"
  /\ Close(s)
  /\ IF Resolves(resp[s])
     THEN /\ todos' = resp[s].body \o call[s].todos
          /\ inputText' = <<>>
          /\ loading' = FALSE
     ELSE UNCHANGED <<todos, inputText, loading>>
  /\ call' = [call EXCEPT ![s] = NoCall]
  /\ Returned(s, <<>>)
  /\ UNCHANGED mounted
  /\ Rerender

\* addTodoSettled prepending to the list as it is when the response is
\* handled: setTodos(prev => [response.data, ...prev])
addTodoSettled_PrependsToCurrent(s) ==
  /\ UNCHANGED calls
  /\ call[s].op = "addTodo"
  /\ Close(s)
  /\ IF Resolves(resp[s])
     THEN /\ todos' = resp[s].body \o todos
          /\ inputText' = <<>>
     ELSE UNCHANGED <<todos, inputText>>
  /\ loading' = FALSE
  /\ call' = [call EXCEPT ![s] = NoCall]
  /\ Returned(s, <<>>)
  /\ UNCHANGED mounted
  /\ Rerender

\* addTodo after its await: try, catch and finally
addTodoSettled(s) ==
  /\ UNCHANGED calls
  /\ call[s].op = "addTodo"
  /\ Close(s)
  /\ IF Resolves(resp[s])
     THEN /\ todos' = resp[s].body \o call[s].todos
          /\ inputText' = <<>>
     ELSE UNCHANGED <<todos, inputText>>
  /\ loading' = FALSE
  /\ call' = [call EXCEPT ![s] = NoCall]
  /\ Returned(s, <<>>)
  /\ UNCHANGED mounted
  /\ Rerender

\* deleteTodo(id), to its await; the Delete button is one of a listed item
deleteTodo(s, id) ==
  /\ mounted
  /\ calls < MaxCalls
  /\ calls' = calls + 1
  /\ id \in ListIds(todos)
  /\ call[s] = NoCall
  /\ call' = [call EXCEPT ![s] = [NoCall EXCEPT !.op = "deleteTodo", !.todos = todos, !.id = id]]
  /\ Arrive(s, [method |-> "DELETE", id |-> id, text |-> Undefined, completed |-> "undefined"])
  /\ last' = NoEvent
  /\ UNCHANGED failed
  /\ UNCHANGED <<todos, inputText, loading, mounted>>
  /\ UNCHANGED itemVars

\* deleteTodo after its await
deleteTodoSettled(s) ==
  /\ UNCHANGED calls
  /\ call[s].op = "deleteTodo"
  /\ Close(s)
  /\ todos' = IF Resolves(resp[s])
              THEN SelectSeq(call[s].todos, LAMBDA todo : todo._id # call[s].id)
              ELSE todos
  /\ call' = [call EXCEPT ![s] = NoCall]
  /\ Returned(s, <<>>)
  /\ UNCHANGED <<inputText, loading, mounted>>
  /\ Rerender

\* editTodo testing `completed` before `text`
editTodo_CompletedFirst(s, id, text, completed) ==
  /\ mounted
  /\ calls < MaxCalls
  /\ calls' = calls + 1
  /\ id \in ListIds(todos)
  /\ call[s] = NoCall
  /\ LET c == [op |-> "editTodo", todos |-> todos, id |-> id, text |-> text, completed |-> completed] IN
     IF completed # "undefined"
     THEN /\ call' = [call EXCEPT ![s] = c]
          /\ Arrive(s, [method |-> "PATCH", id |-> id, text |-> Undefined, completed |-> completed])
          /\ last' = NoEvent
          /\ UNCHANGED failed
     ELSE IF text # Undefined /\ trim(text) # <<>>
     THEN /\ call' = [call EXCEPT ![s] = c]
          /\ Arrive(s, [method |-> "PATCH", id |-> id, text |-> text, completed |-> "undefined"])
          /\ last' = NoEvent
          /\ UNCHANGED failed
     ELSE /\ ReturnedAtOnce(c, <<>>)
          /\ UNCHANGED call
          /\ UNCHANGED serverVars
  /\ UNCHANGED <<todos, inputText, loading, mounted>>

\* editTodo(id, text, completed), to its await or, when there is nothing
\* to send, to its return
editTodo(s, id, text, completed) ==
  /\ mounted
  /\ calls < MaxCalls
  /\ calls' = calls + 1
  /\ id \in ListIds(todos)
  /\ call[s] = NoCall
  /\ LET c == [op |-> "editTodo", todos |-> todos, id |-> id, text |-> text, completed |-> completed] IN
     IF text # Undefined /\ trim(text) # <<>>
     THEN /\ call' = [call EXCEPT ![s] = c]
          /\ Arrive(s, [method |-> "PATCH", id |-> id, text |-> text, completed |-> "undefined"])
          /\ last' = NoEvent
          /\ UNCHANGED failed
     ELSE IF completed # "undefined"
     THEN /\ call' = [call EXCEPT ![s] = c]
          /\ Arrive(s, [method |-> "PATCH", id |-> id, text |-> Undefined, completed |-> completed])
          /\ last' = NoEvent
          /\ UNCHANGED failed
     ELSE /\ ReturnedAtOnce(c, <<>>)
          /\ UNCHANGED call
          /\ UNCHANGED serverVars
  /\ UNCHANGED <<todos, inputText, loading, mounted>>

\* the item of the list with that id, one field replaced
Patched(list, c) ==
  [i \in 1..Len(list) |->
     IF list[i]._id # c.id THEN list[i]
     ELSE IF c.text # Undefined /\ trim(c.text) # <<>>
     THEN [list[i] EXCEPT !.text = c.text]
     ELSE [list[i] EXCEPT !.completed = (c.completed = "true")]]

\* editTodo after its await: it returns null (here <<>>) or a message;
\* when a handleSaveClick of the mounted TodoItem awaited it, that handler
\* goes on: if (errorMsg) setError(errorMsg) else leave edit mode
editTodoSettled(s) ==
  /\ UNCHANGED calls
  /\ call[s].op = "editTodo"
  /\ Close(s)
  /\ IF Resolves(resp[s])
     THEN /\ todos' = Patched(call[s].todos, call[s])
          /\ Returned(s, <<>>)
     ELSE /\ Returned(s, <<IF resp[s].message # "" THEN resp[s].message ELSE EditFailed>>)
          /\ UNCHANGED todos
  /\ call' = [call EXCEPT ![s] = NoCall]
  /\ UNCHANGED <<inputText, loading, mounted>>
  /\ IF s \in saving
     THEN /\ saving' = saving \ {s}
          /\ IF last'.ret # <<>>
             THEN /\ error' = last'.ret[1]
                  /\ UNCHANGED isEditing
             ELSE /\ isEditing' = FALSE
                  /\ error' = ""
          /\ UNCHANGED editText
     ELSE Rerender

\* the Edit button, rendered while the component is not in edit mode
handleEditClick ==
  /\ Shown(todos)
  /\ ~isEditing
  /\ isEditing' = TRUE
  /\ editText' = TextOf(todos)
  /\ UNCHANGED <<error, saving>>
  /\ UNCHANGED <<serverVars, clientVars>>

\* the texts the user types into the edit field
EditTexts == {<<" ">>, <<" ", "A", " ">>}

\* onChange of the edit field
handleChange(value) ==
  /\ Shown(todos)
  /\ isEditing
  /\ value # editText
  /\ editText' = value
  /\ error' = ""
  /\ UNCHANGED <<isEditing, saving>>
  /\ UNCHANGED <<serverVars, clientVars>>

\* the Save button or the Enter key, to the await of editTodo or, when
\* editTodo returns null without a request, to the end
handleSaveClick(s) ==
  /\ Shown(todos)
  /\ isEditing
  /\ editTodo(s, ItemId, editText, "undefined")
  /\ IF trim(editText) = <<>>
     THEN /\ isEditing' = FALSE
          /\ error' = ""
          /\ UNCHANGED <<editText, saving>>
     ELSE /\ saving' = saving \cup {s}
          /\ UNCHANGED <<isEditing, editText, error>>

\* the Cancel button
handleCancelClick ==
  /\ Shown(todos)
  /\ isEditing
  /\ isEditing' = FALSE
  /\ editText' = TextOf(todos)
  /\ UNCHANGED <<error, saving>>
  /\ UNCHANGED <<serverVars, clientVars>>

\* the request of a client function never reaches the server: axios
\* rejects with an error that carries no response
NetworkError(s) ==
  /\ pc[s] = "pending"
  /\ call[s] # NoCall
  /\ pc' = [pc EXCEPT ![s] = "done"]
  /\ UNCHANGED <<db, nextId, now, req, resp, before, deleted, storeUp, clientVars, itemVars>>

\* the server's part: the handler of connection s takes a step
Handle(s) ==
  \/ GetTodos(s)
  \/ PostTodos(s)
  \/ DeleteTodo(s)
  \/ PatchFindDuplicate(s)
  \/ PatchUpdate(s)

\* the client's functions return once their request is answered
Settle(s) ==
  \/ fetchTodosSettled(s)
  \/ addTodoSettled(s)
  \/ deleteTodoSettled(s)
  \/ editTodoSettled(s)

\* one React client, its requests served concurrently or lost
NextClient ==
  \/ \E s \in Conns : fetchTodos(s)
  \/ \E t \in InputTexts : setInputText(t)
  \/ \E s \in Conns : addTodo(s)
  \/ \E s \in Conns, id \in 1..MaxTodos : deleteTodo(s, id)
  \/ \E s \in Conns, id \in 1..MaxTodos, a \in EditArgs :
       editTodo(s, id, a[1], a[2]) /\ UNCHANGED itemVars
  \/ \E s \in Conns : Handle(s)
  \/ \E s \in Conns : Settle(s)
  \/ \E s \in Conns : NetworkError(s)

SpecClient == Init /\ [][NextClient]_vars

\* every way editTodo can be called: text padded, blank or absent, with
\* and without a completed flag
AllEditArgs == {<<" ", "A", " ">>, <<" ">>, Undefined} \X {"undefined", "true"}

\* the React client adding todos and editing them in every way
NextEdit ==
  \/ \E s \in Conns : fetchTodos(s)
  \/ \E s \in Conns : fetchTodosSettled(s)
  \/ \E t \in InputTexts : setInputText(t)
  \/ \E s \in Conns : addTodo(s)
  \/ \E s \in Conns : addTodoSettled(s)
  \/ \E s \in Conns, id \in 1..MaxTodos, a \in AllEditArgs :
       editTodo(s, id, a[1], a[2]) /\ UNCHANGED itemVars
  \/ \E s \in Conns : editTodoSettled(s)
  \/ \E s \in Conns : GetTodos(s)
  \/ \E s \in Conns : PostTodos(s)
  \/ \E s \in Conns : PatchFindDuplicate(s)
  \/ \E s \in Conns : PatchUpdate(s)
  \/ \E s \in Conns : NetworkError(s)

SpecEdit == Init /\ [][NextEdit]_vars

\* the React client with the user editing through the TodoItem of ItemId,
\* whose Delete button is rendered in view mode only
NextItem ==
  \/ \E s \in Conns : fetchTodos(s)
  \/ \E t \in InputTexts : setInputText(t)
  \/ \E s \in Conns : addTodo(s)
  \/ \E s \in Conns, id \in 1..MaxTodos :
       (id = ItemId => ~isEditing) /\ deleteTodo(s, id)
  \/ handleEditClick
  \/ \E value \in EditTexts : handleChange(value)
  \/ \E s \in Conns : handleSaveClick(s)
  \/ handleCancelClick
  \/ \E s \in Conns : Handle(s)
  \/ \E s \in Conns : Settle(s)
  \/ \E s \in Conns : NetworkError(s)

SpecItem == Init /\ [][NextItem]_vars

\* every request is eventually answered or lost, and every client function
\* awaiting an answered or lost request eventually runs on
SpecClientFair ==
  /\ Init
  /\ [][NextClient]_vars
  /\ \A s \in Conns : WF_vars(Handle(s)) /\ WF_vars(Settle(s))

\* ================================================================ claims
Served(s, m) == pc[s] = "done" /\ req[s].method = m

\* the text is given and is not blank
NonBlank(t) == Truthy(t) /\ trim(t) # <<>>

\* equality of two texts under case-insensitive comparison
CiEqual(t, u) ==
  /\ Len(t) = Len(u)
  /\ \A i \in 1..Len(t) : toLowerCase(t[i]) = toLowerCase(u[i])

\* the text holds no character that is special in a regular expression
Plain(t) == \A i \in 1..Len(t) : t[i] # "+"

Doc(S, id) == CHOOSE d \in S : d._id = id

\* C1: a PATCH of an existing id whose body carries only {completed: true}
\* is answered 200 with the item, its completed flag now true.
C1_CompletedOnlyPatchSucceeds ==
  \A s \in Conns :
    (/\ Served(s, "PATCH")
     /\ req[s].text = Undefined
     /\ req[s].completed = "true"
     /\ req[s].id \in Ids(before[s]))
    => /\ resp[s].status = 200
       /\ resp[s].body = <<[Doc(before[s], req[s].id) EXCEPT !.completed = TRUE]>>

\* C2: a PATCH of a stored item whose trimmed text equals, without regard
\* to case, the text of another stored item is answered 400 'Duplicate
\* todo text' and the collection is as it was.
C2_DuplicateTextRejected ==
  \A s \in Conns :
    (/\ Served(s, "PATCH")
     /\ NonBlank(req[s].text)
     /\ req[s].id \in Ids(before[s])
     /\ \E d \in before[s] : d._id # req[s].id /\ CiEqual(trim(req[s].text), d.text))
    => /\ resp[s].status = 400
       /\ resp[s].message = DuplicateText
       /\ db = before[s]

\* C3: a POST whose text is missing, empty or blank is answered 400 'Text
\* is required' and stores nothing.
C3_BlankPostRejected ==
  \A s \in Conns :
    (Served(s, "POST") /\ ~NonBlank(req[s].text))
    => /\ resp[s].status = 400
       /\ resp[s].message = TextRequired
       /\ db = before[s]

\* C4: a POST with a non-blank text that succeeds (201) returns one item,
\* newly stored, whose text is the trimmed request text and whose completed
\* flag is false.
C4_PostStoresTrimmedText ==
  \A s \in Conns :
    (Served(s, "POST") /\ NonBlank(req[s].text) /\ resp[s].status = 201)
    => /\ Len(resp[s].body) = 1
       /\ resp[s].body[1].text = trim(req[s].text)
       /\ resp[s].body[1].completed = FALSE
       /\ resp[s].body[1]._id \notin Ids(before[s])
       /\ db = before[s] \cup {resp[s].body[1]}

W4_PaddedTextCreated ==
  \E s \in Conns :
    /\ Served(s, "POST")
    /\ resp[s].status = 201
    /\ req[s].text # trim(req[s].text)
    /\ before[s] # {}

\* C5: GET answers with every stored item, each once, an item created later
\* (a greater _id: ids are generated in creation order) before every item
\* created earlier.
C5_NewestFirst ==
  \A s \in Conns :
    Served(s, "GET")
    => LET b == resp[s].body IN
       /\ {b[i] : i \in 1..Len(b)} = db
       /\ Len(b) = Cardinality(db)
       /\ \A i, j \in 1..Len(b) : i < j => b[i]._id > b[j]._id

\* C6 as stated: a DELETE of an id that matches no stored item is answered
\* 404 'Todo not found' and the collection is as it was.
C6_DeleteMissingIs404 ==
  \A s \in Conns :
    (Served(s, "DELETE") /\ req[s].id \notin Ids(before[s]))
    => /\ resp[s].status = 404
       /\ resp[s].message = TodoNotFound
       /\ db = before[s]

\* C6 amended: a DELETE of an id that matches no stored item leaves the
\* collection as it was; it is answered 404 'Todo not found' when the id is
\* well formed and 500 when it is not.
C6_DeleteMissingLeavesStore ==
  \A s \in Conns :
    (Served(s, "DELETE") /\ req[s].id \notin Ids(before[s]))
    => /\ db = before[s]
       /\ IF req[s].id = InvalidId
          THEN resp[s].status = 500
          ELSE resp[s].status = 404 /\ resp[s].message = TodoNotFound

W6_MissingIdOnNonEmptyStore ==
  \E s \in Conns :
    /\ Served(s, "DELETE")
    /\ req[s].id # InvalidId
    /\ req[s].id \notin Ids(before[s])
    /\ before[s] # {}
    /\ resp[s].status = 404

\* C7: a DELETE of a stored item is answered 200 'Todo deleted
\* successfully' and removes that item and no other; a deleted id is never
\* stored again and no GET returns it, whatever is created afterwards.
C7_DeleteRemovesForGood ==
  /\ \A s \in Conns :
       (Served(s, "DELETE") /\ req[s].id \in Ids(before[s]))
       => /\ resp[s].status = 200
          /\ resp[s].message = TodoDeleted
          /\ db = {d \in before[s] : d._id # req[s].id}
          /\ req[s].id \in deleted
  /\ deleted \cap Ids(db) = {}
  /\ \A s \in Conns :
       Served(s, "GET")
       => \A i \in 1..Len(resp[s].body) : resp[s].body[i]._id \notin deleted

W7_CreatedAfterDelete ==
  \E s \in Conns :
    /\ Served(s, "GET")
    /\ \E i \in 1..Len(resp[s].body), k \in deleted : resp[s].body[i]._id > k

\* C8: every stored item's text is non-empty after trimming.
C8_StoredTextNonBlank == \A d \in db : trim(d.text) # <<>>

W8_PaddedTextPatched ==
  \E s \in Conns :
    /\ Served(s, "PATCH")
    /\ resp[s].status = 200
    /\ req[s].text # trim(req[s].text)
    /\ Cardinality(db) = 2

\* C9: a POST or PATCH answered 400 has changed nothing in the collection.
C9_ClientErrorLeavesStore ==
  \A s \in Conns :
    (/\ pc[s] = "done"
     /\ req[s].method \in {"POST", "PATCH"}
     /\ resp[s].status = 400)
    => db = before[s]

W9_DuplicateRejected ==
  \E s \in Conns :
    /\ Served(s, "PATCH")
    /\ resp[s].status = 400
    /\ resp[s].message = DuplicateText
    /\ req[s].id \in Ids(before[s])

\* C10 as stated (for ids of valid format): a PATCH with a non-blank text
\* of an id that matches no stored item is answered 404 'Todo not found',
\* whatever texts the stored items hold, and changes no item.
C10_PatchMissingIs404 ==
  \A s \in Conns :
    (/\ Served(s, "PATCH")
     /\ NonBlank(req[s].text)
     /\ req[s].id # InvalidId
     /\ req[s].id \notin Ids(before[s]))
    => /\ resp[s].status = 404
       /\ resp[s].message = TodoNotFound
       /\ db = before[s]

\* C10 amended: a PATCH with a non-blank text of an id that matches no
\* stored item changes no item and is answered with an error; for a well
\* formed id and a text free of regular-expression characters the answer is
\* 400 'Duplicate todo text' when a stored item has that text without
\* regard to case and 404 'Todo not found' otherwise; for a malformed id
\* it is 500.
C10_PatchMissingNeverUpdates ==
  \A s \in Conns :
    (/\ Served(s, "PATCH")
     /\ NonBlank(req[s].text)
     /\ req[s].id \notin Ids(before[s]))
    => /\ db = before[s]
       /\ resp[s].status \in {400, 404, 500}
       /\ req[s].id = InvalidId => resp[s].status = 500
       /\ (req[s].id # InvalidId /\ Plain(trim(req[s].text)))
          => IF \E d \in before[s] : CiEqual(trim(req[s].text), d.text)
             THEN resp[s].status = 400 /\ resp[s].message = DuplicateText
             ELSE resp[s].status = 404 /\ resp[s].message = TodoNotFound

W10_MissingIdNotFound ==
  \E s \in Conns :
    /\ Served(s, "PATCH")
    /\ NonBlank(req[s].text)
    /\ req[s].id # InvalidId
    /\ req[s].id \notin Ids(before[s])
    /\ before[s] # {}
    /\ resp[s].status = 404

C12_StoreFailureIs500 ==
  \A s \in Conns :
    (/\ pc[s] = "done"
     /\ req[s].method \in {"GET", "POST", "PATCH", "DELETE"}
     /\ resp[s].message = StoreUnreachable)
    => /\ resp[s].status = 500
       /\ db = before[s]

\* C13: when addTodo returns after its request succeeded, the local list
\* is the returned item followed by the items the list held when the
\* response was handled, in the same order.
C13_AddPrependsToCurrentList ==
  (last.call.op = "addTodo" /\ Resolves(last.resp))
  => todos = last.resp.body \o last.todos

\* C14: when deleteTodo(id) returns after its request succeeded, the local
\* list is the list as it was when the response was handled without the
\* item of that id, the other items kept in their order; when the request
\* failed the local list is as it was.
C14_RemoveFiltersCurrentList ==
  last.call.op = "deleteTodo"
  => todos = IF Resolves(last.resp)
             THEN SelectSeq(last.todos, LAMBDA todo : todo._id # last.call.id)
             ELSE last.todos

\* C15: addTodo called on a blank input sends no request and leaves the
\* local list, the input and the busy flag as they were; addTodo whose
\* request failed leaves the local list and the typed input as they were.
C15_AddBlankOrFailedChangesNothing ==
  /\ (last.call.op = "addTodo" /\ trim(last.inputText) = <<>>)
     => /\ Busy = last.busy
        /\ \A s \in Conns : req[s].method # "POST"
        /\ todos = last.todos
        /\ inputText = last.inputText
        /\ ~loading
  /\ (last.call.op = "addTodo" /\ trim(last.inputText) # <<>> /\ ~Resolves(last.resp))
     => /\ todos = last.todos
        /\ inputText = last.inputText
        /\ trim(inputText) # <<>>

W15_FailedAddKeepsListAndInput ==
  /\ last.call.op = "addTodo"
  /\ ~Resolves(last.resp)
  /\ trim(last.inputText) # <<>>
  /\ todos # <<>>
  /\ \E s \in Conns : call[s].op = "deleteTodo"

\* editTodo called with these arguments sends a PATCH
EditSends(c) == (c.text # Undefined /\ trim(c.text) # <<>>) \/ c.completed # "undefined"

\* C16: when editTodo(id, ...) returns after its request failed it returns
\* a message, the server's when the response carries one, and the local
\* list is as it was; otherwise it returns null and the local list is as it
\* was when the response was handled (same length, same order, every other
\* item the same) but for the edited field of the item with that id.
C16_EditPatchesOneItemOfCurrentList ==
  last.call.op = "editTodo"
  => IF EditSends(last.call) /\ ~Resolves(last.resp)
     THEN /\ last.ret # <<>>
          /\ last.resp.message # "" => last.ret = <<last.resp.message>>
          /\ todos = last.todos
     ELSE /\ last.ret = <<>>
          /\ Len(todos) = Len(last.todos)
          /\ \A i \in 1..Len(todos) :
               IF last.todos[i]._id # last.call.id \/ ~EditSends(last.call)
               THEN todos[i] = last.todos[i]
               ELSE \/ todos[i] = [last.todos[i] EXCEPT !.text = todos[i].text]
                    \/ todos[i] = [last.todos[i] EXCEPT !.completed = todos[i].completed]

\* the connections addTodo is awaiting a response on
AddsInFlight == {s \in Conns : call[s].op = "addTodo"}

\* C17: at every moment at most one add request is outstanding, and while
\* the busy flag is set addTodo cannot be called, by the button or by the
\* Enter key.
C17_AtMostOneAddOutstanding ==
  /\ Cardinality(AddsInFlight) <= 1
  /\ Cardinality({s \in Conns : pc[s] # "idle" /\ req[s].method = "POST"}) <= 1
  /\ loading => ~AddEnabled

W17_DeleteInFlightDuringAdd ==
  /\ loading
  /\ \E s, t \in Conns :
       /\ call[s].op = "addTodo"
       /\ call[t].op \in {"deleteTodo", "editTodo"}
       /\ pc[s] = "pending"
       /\ pc[t] = "pending"

\* C18: the busy flag is set exactly while an add request is in flight,
\* and, every request being answered or lost in the end, a set flag is
\* eventually cleared, whether the request succeeded or failed.
C18_BusyExactlyWhileAddInFlight ==
  /\ [](loading <=> AddsInFlight # {})
  /\ loading ~> ~loading

W18_FlagClearedAfterFailedAdd ==
  /\ last.call.op = "addTodo"
  /\ trim(last.call.text) # <<>>
  /\ ~Resolves(last.resp)
  /\ AddsInFlight = {}
  /\ ~loading

\* C19: a PATCH with a non-blank text of a well-formed id is answered 400
\* 'Duplicate todo text' exactly when some stored item other than the
\* target has a text equal to the trimmed request text without regard to
\* case; in particular not when only the target itself has that text.
C19_DuplicateCheckIsCiEquality ==
  \A s \in Conns :
    (/\ Served(s, "PATCH")
     /\ NonBlank(req[s].text)
     /\ req[s].id # InvalidId)
    => ((resp[s].status = 400 /\ resp[s].message = DuplicateText)
        <=> \E d \in before[s] : d._id # req[s].id /\ CiEqual(trim(req[s].text), d.text))

\* C20: two PATCH requests (of texts without special characters) on
\* different items, served concurrently, are never both answered 200 with
\* the two items left holding texts that are equal without regard to case.
C20_ConcurrentPatchesKeepTextsDistinct ==
  \A s, t \in Conns :
    (/\ s # t
     /\ Served(s, "PATCH") /\ resp[s].status = 200
     /\ Served(t, "PATCH") /\ resp[t].status = 200
     /\ Plain(req[s].text) /\ Plain(req[t].text)
     /\ req[s].id # req[t].id
     /\ {req[s].id, req[t].id} \subseteq Ids(db))
    => ~CiEqual(Doc(db, req[s].id).text, Doc(db, req[t].id).text)

\* C21: a call of editTodo sends at most one PATCH, and that PATCH carries
\* one field: text (as given) when the text is non-blank, otherwise
\* completed when it is defined; a call with a blank or absent text and no
\* completed flag sends nothing, changes no local state and returns null.
C21_EditSendsOneFieldOrNothing ==
  /\ \A s \in Conns :
       call[s].op = "editTodo"
       => /\ req[s].method = "PATCH"
          /\ req[s].id = call[s].id
          /\ IF NonBlank(call[s].text)
             THEN req[s].text = call[s].text /\ req[s].completed = "undefined"
             ELSE /\ call[s].completed # "undefined"
                  /\ req[s].text = Undefined
                  /\ req[s].completed = call[s].completed
  /\ \A s \in Conns : req[s].method = "PATCH" => call[s].op = "editTodo"
  /\ (/\ last.call.op = "editTodo"
      /\ ~NonBlank(last.call.text)
      /\ last.call.completed = "undefined")
     => /\ last.ret = <<>>
        /\ last.resp = NoResp
        /\ Busy = last.busy
        /\ todos = last.todos
        /\ inputText = last.inputText

W21_TextSentThoughCompletedGiven ==
  \E s \in Conns :
    /\ call[s].op = "editTodo"
    /\ NonBlank(call[s].text)
    /\ call[s].completed = "true"
    /\ pc[s] = "pending"
    /\ req[s].text = call[s].text

\* C22: whenever no request of the client is in flight and none has failed
\* so far, the local list is an answer GET /api/todos can give: the stored
\* items, each once, with their text and completed, newest first.
C22_LocalListMirrorsStore ==
  (Busy = {} /\ ~failed)
  => /\ {todos[i] : i \in 1..Len(todos)} = db
     /\ Len(todos) = Cardinality(db)
     /\ \A i, j \in 1..Len(todos) : i < j => todos[i].createdAt >= todos[j].createdAt

\* C24: the local list never holds two entries with the same _id, however
\* the responses of the initial fetch and of adds, removes and edits are
\* interleaved.
C24_LocalIdsUnique ==
  \A i, j \in 1..Len(todos) : i # j => todos[i]._id # todos[j]._id

W24_AddHandledAfterFetchListedIt ==
  /\ last.call.op = "addTodo"
  /\ Resolves(last.resp)
  /\ last.resp.body[1]._id \in ListIds(last.todos)
  /\ last.resp.body[1]._id \in ListIds(todos)

\* the step in which a handleSaveClick of the mounted TodoItem gets the
\* answer of editTodo
SaveSettles(s) == s \in saving /\ call[s].op = "editTodo" /\ call'[s] = NoCall

\* the step in which handleSaveClick gets null from an editTodo that sent
\* nothing
SaveReturnsAtOnce ==
  /\ isEditing
  /\ calls' = calls + 1
  /\ last'.call.op = "editTodo"
  /\ last'.resp = NoResp
  /\ last'.ret = <<>>

\* a save that fails keeps edit mode and shows the returned message
SaveFailedShowsMessage ==
  \A s \in Conns : (SaveSettles(s) /\ last'.ret # <<>>)
    => /\ isEditing => isEditing'
       /\ error' = last'.ret[1]

\* a save that succeeds leaves edit mode with the error cleared
SaveSucceededLeavesEditMode ==
  ((\E s \in Conns : SaveSettles(s) /\ last'.ret = <<>>) \/ SaveReturnsAtOnce)
    => ~isEditing' /\ error' = ""

\* typing clears the error
TypingClearsError ==
  (isEditing /\ isEditing' /\ editText' # editText) => error' = ""

\* edit mode is entered with no error message to display
EditModeEnteredWithoutError ==
  (~isEditing /\ isEditing') => error' = ""

\* C23: in the TodoItem a failed save keeps edit mode and shows the
\* returned message, a successful save leaves edit mode with the error
\* cleared, typing clears the error, and whenever edit mode is entered
\* (after a cancel too) no error message is displayed.
C23_ErrorOnlyAfterFailedSaveOfSession ==
  [][/\ SaveFailedShowsMessage
     /\ SaveSucceededLeavesEditMode
     /\ TypingClearsError
     /\ EditModeEnteredWithoutError]_vars

====
